---- MODULE Spec2Model ----
(***************************************************************************)
(* Model of the gedit "safety save" plugin (src/safety_save.py).           *)
(*                                                                         *)
(* Two extensions share one storage tree  <store_root>/<session>/<name>:   *)
(*   - SafetySavePluginAppExtension sweeps old session directories when    *)
(*     it is activated;                                                    *)
(*   - SafetySavePluginViewExtension (one object per view/document)        *)
(*     snapshots the text of an untitled document on a recurring timer     *)
(*     and removes the snapshot when the document is saved under a name.   *)
(*                                                                         *)
(* All callbacks run on the host's single-threaded main loop, so every     *)
(* handler is one atomic action.                                           *)
(***************************************************************************)
EXTENDS Integers, Sequences, FiniteSets, TLC

VARIABLES
    now,        \* wall clock (datetime.now()), whole seconds since 1970-01-01
    settings,   \* the host's Gio.Settings: 'auto-save', 'auto-save-interval' (fixed for the session)
    fs,         \* the storage tree: [root: does _store_root exist, dirs: name -> (filename -> text),
                \*   ro_root: is _store_root read-only, ro: the read-only directories]
    doc,        \* per view: the Gedit.Document of the view
    view,       \* per view: the attributes of the SafetySavePluginViewExtension object
    timers,     \* per view: ids of the live GLib timeout sources calling its __store_unsaved_cb
    conns,      \* per view: ids of the live 'saved' connections calling its __on_saved
    last        \* the handler that ran last, and the exception that left it (if any)

vars == <<now, settings, fs, doc, view, timers, conns, last>>

----------------------------------------------------------------------------
(* Calendar: datetime <-> '%Y%m%d-%H%M%S'.  A directory name is modelled   *)
(* by its six numeric fields <<Y, m, d, H, M, S>>.                         *)

SecondsPerDay == 86400

IsLeap(y) == (y % 4 = 0) /\ ((y % 100 # 0) \/ (y % 400 = 0))

DaysInMonth(y, m) ==
    IF m = 2 THEN (IF IsLeap(y) THEN 29 ELSE 28)
    ELSE IF m \in {4, 6, 9, 11} THEN 30 ELSE 31

\* days since 1970-01-01 of the proleptic Gregorian date y-m-d
DaysFromCivil(y, m, d) ==
    LET yy  == IF m <= 2 THEN y - 1 ELSE y
        era == yy \div 400
        yoe == yy - era * 400
        mp  == IF m > 2 THEN m - 3 ELSE m + 9
        doy == (153 * mp + 2) \div 5 + d - 1
        doe == yoe * 365 + yoe \div 4 - yoe \div 100 + doy
    IN  era * 146097 + doe - 719468

\* the date <<y, m, d>> of a day count since 1970-01-01
CivilFromDays(z0) ==
    LET z   == z0 + 719468
        era == z \div 146097
        doe == z - era * 146097
        yoe == (doe - doe \div 1460 + doe \div 36524 - doe \div 146096) \div 365
        doy == doe - (365 * yoe + yoe \div 4 - yoe \div 100)
        mp  == (5 * doy + 2) \div 153
        d   == doy - (153 * mp + 2) \div 5 + 1
        m   == IF mp < 10 THEN mp + 3 ELSE mp - 9
        y   == yoe + era * 400 + (IF m <= 2 THEN 1 ELSE 0)
    IN  <<y, m, d>>

\* datetime.strftime(_DATETIME_FORMAT)
strftime(t) ==
    LET days == t \div SecondsPerDay
        sod  == t % SecondsPerDay
        ymd  == CivilFromDays(days)
    IN  <<ymd[1], ymd[2], ymd[3], sod \div 3600, (sod % 3600) \div 60, sod % 60>>

\* does datetime.strptime(name, _DATETIME_FORMAT) return (TRUE) or raise ValueError (FALSE)
parses(name) ==
    /\ Len(name) = 6
    /\ name[1] \in 1..9999
    /\ name[2] \in 1..12
    /\ name[3] \in 1..DaysInMonth(name[1], name[2])
    /\ name[4] \in 0..23
    /\ name[5] \in 0..59
    /\ name[6] \in 0..59

\* datetime.strptime(name, _DATETIME_FORMAT), as seconds since 1970-01-01
strptime(name) ==
    DaysFromCivil(name[1], name[2], name[3]) * SecondsPerDay
        + name[4] * 3600 + name[5] * 60 + name[6]

\* the order of sorted() on the names: string order of the zero-padded fields
RECURSIVE NameLess(_, _)
NameLess(a, b) ==
    IF a = << >> \/ b = << >> THEN a = << >> /\ b # << >>
    ELSE IF Head(a) # Head(b) THEN Head(a) < Head(b)
    ELSE NameLess(Tail(a), Tail(b))

RECURSIVE sorted(_)
sorted(S) ==
    IF S = {} THEN << >>
    ELSE LET m == CHOOSE x \in S : \A y \in S \ {x} : NameLess(x, y)
         IN  <<m>> \o sorted(S \ {m})

----------------------------------------------------------------------------
(* Module-level constants of safety_save.py                                *)

_MAX_STORED_AGE_S == 86400 * 7 * 4

\* the instant the module is imported: 2024-01-15 09:30:00
StartTime == 1705311000

_start_timestamp == strftime(StartTime)

\* _store_path = join(_store_root, _start_timestamp): the directory of this session
_store_path == _start_timestamp

----------------------------------------------------------------------------
(* The storage tree and the os / os.path calls made on it                  *)

NoFiles == [f \in {} |-> ""]
NoDirs  == [n \in {} |-> NoFiles]

\* os.path.exists(join(_store_root, n))
exists(F, n) == F.root /\ n \in DOMAIN F.dirs

\* os.path.exists(join(_store_root, n, f))
file_exists(F, n, f) == exists(F, n) /\ f \in DOMAIN F.dirs[n]

\* os.makedirs(join(_store_root, n)): creates the root too when it is missing
makedirs(F, n) ==
    [F EXCEPT !.root = TRUE,
              !.dirs = [x \in DOMAIN F.dirs \cup {n} |->
                          IF x \in DOMAIN F.dirs THEN F.dirs[x] ELSE NoFiles]]

\* the calls that raise PermissionError: entries cannot be added to or
\* removed from a read-only directory (an existing file can still be rewritten)
makedirs_fails(F, n) == F.root /\ F.ro_root /\ n \notin DOMAIN F.dirs
create_fails(F, n, f) == n \in F.ro /\ f \notin DOMAIN F.dirs[n]
unlink_fails(F, n)    == n \in F.ro
rmdir_fails(F)        == F.ro_root

\* a write that appends to the file instead of replacing its content
write_file_append(F, n, f, text) ==
    [F EXCEPT !.dirs = [x \in DOMAIN F.dirs |->
        IF x = n
        THEN [g \in DOMAIN F.dirs[n] \cup {f} |->
                IF g # f THEN F.dirs[n][g]
                ELSE IF f \in DOMAIN F.dirs[n] THEN F.dirs[n][f] \o text ELSE text]
        ELSE F.dirs[x]]]

\* with open(join(_store_root, n, f), 'w') as h: h.write(text)
write_file(F, n, f, text) ==
    [F EXCEPT !.dirs = [x \in DOMAIN F.dirs |->
        IF x = n
        THEN [g \in DOMAIN F.dirs[n] \cup {f} |-> IF g = f THEN text ELSE F.dirs[n][g]]
        ELSE F.dirs[x]]]

\* os.unlink(join(_store_root, n, f)) of an existing file
unlink(F, n, f) ==
    [F EXCEPT !.dirs = [x \in DOMAIN F.dirs |->
        IF x = n
        THEN [g \in DOMAIN F.dirs[n] \ {f} |-> F.dirs[n][g]]
        ELSE F.dirs[x]]]

\* os.rmdir(join(_store_root, n)) of an existing, empty directory
rmdir(F, n) ==
    [F EXCEPT !.dirs = [x \in DOMAIN F.dirs \ {n} |-> F.dirs[x]],
              !.ro = @ \ {n}]

\* os.listdir(join(_store_root, n))
listdir(F, n) == DOMAIN F.dirs[n]

----------------------------------------------------------------------------
(* SafetySavePluginAppExtension                                            *)

\* a threshold test that also keeps a directory of exactly the maximal age
too_recent_le(age) == age <= _MAX_STORED_AGE_S

\* "if age < _MAX_STORED_AGE_S: ... continue"
too_recent(age) == age < _MAX_STORED_AGE_S

\* "for filename in listdir(path): unlink(join(path, filename))"
RECURSIVE unlink_all(_, _, _)
unlink_all(F, n, files) ==
    IF files = {} THEN F
    ELSE LET f == CHOOSE x \in files : TRUE
         IN  unlink_all(unlink(F, n, f), n, files \ {f})

\* the body of the loop for a directory that is not too recent
remove_session(F, n) == rmdir(unlink_all(F, n, listdir(F, n)), n)

\* "for timestamp_subdir in sorted(timestamp_subdirs)": the entries still to
\* be visited, the tree so far, and the clock; a ValueError of strptime or
\* an OSError of unlink or rmdir leaves the loop and the method
RECURSIVE cleanup_loop(_, _, _)
cleanup_loop(subdirs, F, t) ==
    IF subdirs = << >> THEN [fs |-> F, exc |-> "none"]
    ELSE LET n == Head(subdirs)
         IN  IF ~parses(n) THEN [fs |-> F, exc |-> "ValueError"]
             ELSE IF too_recent(t - strptime(n))
                  THEN cleanup_loop(Tail(subdirs), F, t)
             ELSE IF listdir(F, n) # {} /\ unlink_fails(F, n)
                  THEN [fs |-> F, exc |-> "PermissionError"]
             ELSE IF rmdir_fails(F)
                  THEN [fs |-> unlink_all(F, n, listdir(F, n)), exc |-> "PermissionError"]
             ELSE cleanup_loop(Tail(subdirs), remove_session(F, n), t)

\* a sweep that lets the OSError of listdir(_store_root) escape
do_cleanup_no_except(F, t) ==
    IF ~F.root
    THEN [fs |-> F, exc |-> "OSError"]
    ELSE cleanup_loop(sorted(DOMAIN F.dirs), F, t)

\* SafetySavePluginAppExtension.__do_cleanup: the tree it leaves and the
\* exception it raises ("none": it returns normally)
do_cleanup(F, t) ==
    IF ~F.root
    THEN [fs |-> F, exc |-> "none"]          \* listdir raised OSError: return
    ELSE cleanup_loop(sorted(DOMAIN F.dirs), F, t)

----------------------------------------------------------------------------
(* SafetySavePluginViewExtension.  An attribute of the object is << >>     *)
(* while it is not set (never assigned, or deleted by del) and <<v>> when  *)
(* it holds v.  S is [self: the attributes, timers: the live timeout       *)
(* sources of this object, conns: its live 'saved' connections].           *)

Views == {1, 2}

NoAttr == << >>

\* the id GObject hands out for a new source / connection
new_id(ids) == IF ids = {} THEN 1 ELSE 1 + (CHOOSE i \in ids : \A j \in ids : j <= i)

\* __init__
new_view == [phase |-> "new", enabled |-> NoAttr, run_interval_s |-> NoAttr,
             watch_state |-> FALSE, save_timer_id |-> NoAttr,
             sig_saved |-> NoAttr, file_path |-> NoAttr]

\* __is_enabled: the object after the call (the settings are read once and cached)
is_enabled_load(self, st) ==
    IF self.enabled # NoAttr THEN self
    ELSE [self EXCEPT !.enabled = <<st.auto_save>>,
                      !.run_interval_s = <<st.auto_save_interval>>]

\* __is_enabled: the value it returns on an object whose cache is loaded
is_enabled(self) == self.enabled[1]

\* __is_watching
is_watching(self) == self.watch_state

\* the interval __set_schedule passes to GObject.timeout_add_seconds
wait_s(self) == self.run_interval_s[1] * 60

\* __set_schedule
set_schedule(S) ==
    LET i == new_id(S.timers)
    IN  [S EXCEPT !.timers = @ \cup {i}, !.self.save_timer_id = <<i>>]

\* __clear_schedule
clear_schedule(S) ==
    [S EXCEPT !.timers = @ \ {S.self.save_timer_id[1]},
              !.self.save_timer_id = NoAttr]

\* __hook_signals
hook_signals(S) ==
    LET i == new_id(S.conns)
    IN  [S EXCEPT !.conns = @ \cup {i}, !.self.sig_saved = <<i>>]

\* __unhook_signals
unhook_signals(S) ==
    [S EXCEPT !.conns = @ \ {S.self.sig_saved[1]},
              !.self.sig_saved = NoAttr]

\* __watch_start; name is __get_name() at that moment
watch_start(S, name) ==
    set_schedule(hook_signals(
        [S EXCEPT !.self.watch_state = TRUE,
                  !.self.file_path = << <<_store_path, name>> >>]))

\* a stop that forgets to disconnect the 'saved' handler
watch_stop_keeps_signal(S) ==
    IF ~is_watching(S.self) THEN S
    ELSE clear_schedule([S EXCEPT !.self.watch_state = FALSE])

\* a stop that forgets to cancel the timeout source
watch_stop_keeps_timer(S) ==
    IF ~is_watching(S.self) THEN S
    ELSE unhook_signals([S EXCEPT !.self.watch_state = FALSE])

\* __watch_stop
watch_stop(S) ==
    IF ~is_watching(S.self) THEN S
    ELSE unhook_signals(clear_schedule([S EXCEPT !.self.watch_state = FALSE]))

\* __ensure_path
ensure_path(F) == IF ~exists(F, _store_path) THEN makedirs(F, _store_path) ELSE F

\* a tick that creates the session directory before it looks at the document
store_unsaved_cb_mkdir_first(self, d, F) ==
    IF d.untouched
    THEN [fs |-> ensure_path(F), ret |-> TRUE, exc |-> "none"]
    ELSE [fs  |-> write_file(ensure_path(F), self.file_path[1][1],
                             self.file_path[1][2], d.text),
          ret |-> TRUE, exc |-> "none"]

\* a tick that stores the text whether the document was touched or not
store_unsaved_cb_always(self, d, F) ==
    [fs  |-> write_file(ensure_path(F), self.file_path[1][1],
                        self.file_path[1][2], d.text),
     ret |-> TRUE, exc |-> "none"]

\* __store_unsaved_cb returning False after it wrote: the timeout source is dropped
store_unsaved_cb_once(self, d, F) ==
    IF d.untouched
    THEN [fs |-> F, ret |-> TRUE, exc |-> "none"]
    ELSE [fs  |-> write_file(ensure_path(F), self.file_path[1][1],
                             self.file_path[1][2], d.text),
          ret |-> FALSE, exc |-> "none"]

\* __store_unsaved_cb opening the file with mode 'x': an existing file is an error
store_unsaved_cb_exclusive(self, d, F) ==
    IF d.untouched
    THEN [fs |-> F, ret |-> TRUE, exc |-> "none"]
    ELSE IF file_exists(F, self.file_path[1][1], self.file_path[1][2])
    THEN [fs |-> F, ret |-> FALSE, exc |-> "FileExistsError"]
    ELSE [fs  |-> write_file(ensure_path(F), self.file_path[1][1],
                             self.file_path[1][2], d.text),
          ret |-> TRUE, exc |-> "none"]

\* __store_unsaved_cb: the tree it leaves, the exception that leaves it,
\* and the value the main loop gets (TRUE: keep the timeout source; a
\* callback that raised counts as FALSE)
store_unsaved_cb(self, d, F) ==
    IF d.untouched
    THEN [fs |-> F, ret |-> TRUE, exc |-> "none"]
    ELSE IF makedirs_fails(F, _store_path)
    THEN [fs |-> F, ret |-> FALSE, exc |-> "PermissionError"]
    ELSE IF create_fails(ensure_path(F), self.file_path[1][1], self.file_path[1][2])
    THEN [fs |-> ensure_path(F), ret |-> FALSE, exc |-> "PermissionError"]
    ELSE [fs  |-> write_file(ensure_path(F), self.file_path[1][1],
                             self.file_path[1][2], d.text),
          ret |-> TRUE, exc |-> "none"]

\* a cleanup that leaves the emptied session directory behind
cleanup_temp_file_keeps_dir(self, F) ==
    LET n == self.file_path[1][1]
        f == self.file_path[1][2]
    IN  IF ~file_exists(F, n, f)
        THEN [fs |-> F, exc |-> "FileNotFoundError"]
        ELSE [fs |-> unlink(F, n, f), exc |-> "none"]

\* __cleanup_temp_file: unlink raises when the file is missing or cannot be
\* removed, rmdir when the directory cannot be removed
cleanup_temp_file(self, F) ==
    LET n == self.file_path[1][1]
        f == self.file_path[1][2]
    IN  IF ~file_exists(F, n, f)
        THEN [fs |-> F, exc |-> "FileNotFoundError"]
        ELSE IF unlink_fails(F, n)
        THEN [fs |-> F, exc |-> "PermissionError"]
        ELSE LET G == unlink(F, n, f)
             IN  IF Cardinality(listdir(G, _store_path)) > 0
                 THEN [fs |-> G, exc |-> "none"]
                 ELSE IF rmdir_fails(G)
                 THEN [fs |-> G, exc |-> "PermissionError"]
                 ELSE [fs |-> rmdir(G, _store_path), exc |-> "none"]

\* a handler of 'saved' that stops watching and leaves the temp file
on_saved_keeps_file(S, F) ==
    IF is_watching(S.self)
    THEN [S |-> watch_stop(S), fs |-> F, exc |-> "none"]
    ELSE [S |-> S, fs |-> F, exc |-> "none"]

\* __on_saved: [S, fs, exc] after the handler
on_saved(S, F) ==
    IF is_watching(S.self)
    THEN LET T == watch_stop(S)
             r == cleanup_temp_file(T.self, F)
         IN  [S |-> T, fs |-> r.fs, exc |-> r.exc]
    ELSE [S |-> S, fs |-> F, exc |-> "none"]

\* the emission of 'saved': the connections are called in the order they
\* were made; one that was disconnected meanwhile is not called
RECURSIVE emit_saved(_, _, _, _)
emit_saved(ids, S, F, exc) ==
    IF ids = {} THEN [S |-> S, fs |-> F, exc |-> exc]
    ELSE LET i == CHOOSE x \in ids : \A y \in ids : x <= y
         IN  IF i \notin S.conns
             THEN emit_saved(ids \ {i}, S, F, exc)
             ELSE LET r == on_saved(S, F)
                  IN  emit_saved(ids \ {i}, r.S, r.fs,
                                 IF r.exc # "none" THEN r.exc ELSE exc)

\* an activation that does not look at the 'auto-save' toggle
view_do_activate_any_toggle(S, d, F, st) ==
    LET T == [S EXCEPT !.self = is_enabled_load(S.self, st)]
    IN  IF ~d.untitled THEN [S |-> T, fs |-> F, exc |-> "none"]
        ELSE [S |-> watch_start(T, d.name), fs |-> F, exc |-> "none"]

\* an activation that does not look at the name of the document
view_do_activate_any_doc(S, d, F, st) ==
    LET T == [S EXCEPT !.self = is_enabled_load(S.self, st)]
    IN  IF ~is_enabled(T.self) THEN [S |-> T, fs |-> F, exc |-> "none"]
        ELSE [S |-> watch_start(T, d.name), fs |-> F, exc |-> "none"]

\* do_activate of the view extension; d is view.get_buffer().
\* [S, fs, exc] after the handler
view_do_activate(S, d, F, st) ==
    LET T == [S EXCEPT !.self = is_enabled_load(S.self, st)]
    IN  IF ~is_enabled(T.self) THEN [S |-> T, fs |-> F, exc |-> "none"]
        ELSE IF ~d.untitled THEN [S |-> T, fs |-> F, exc |-> "none"]
        ELSE [S |-> watch_start(T, d.name), fs |-> F, exc |-> "none"]

\* a deactivation that removes the temp file as a named save does
view_do_deactivate_cleans(S, F, st) ==
    LET T == [S EXCEPT !.self = is_enabled_load(S.self, st)]
    IN  IF ~is_enabled(T.self) THEN [S |-> T, fs |-> F, exc |-> "none"]
        ELSE IF ~is_watching(T.self) THEN [S |-> T, fs |-> F, exc |-> "none"]
        ELSE LET r == cleanup_temp_file(T.self, F)
             IN  [S |-> watch_stop(T), fs |-> r.fs, exc |-> r.exc]

\* do_deactivate of the view extension: [S, fs, exc] after the handler
view_do_deactivate(S, F, st) ==
    LET T == [S EXCEPT !.self = is_enabled_load(S.self, st)]
    IN  IF ~is_enabled(T.self) THEN [S |-> T, fs |-> F, exc |-> "none"]
        ELSE [S |-> watch_stop(T), fs |-> F, exc |-> "none"]

----------------------------------------------------------------------------
(* The inputs: documents, settings, what earlier sessions left on disk,    *)
(* and the instants at which the host runs a handler.                      *)

Name1 == "Untitled Document 1"
Name2 == "Untitled Document 2"
Names == {Name1, Name2}

\* the texts an edit leaves in a document (a new document is empty)
Texts == {"a", "ab"}

\* values of 'auto-save-interval' (minutes)
Intervals == {10}

\* uptimes (seconds since StartTime) at which handlers run
Uptimes == {0, _MAX_STORED_AGE_S}

\* a new, unnamed document, and a document opened from a file
untitled_doc(name) == [name |-> name, untitled |-> TRUE, untouched |-> TRUE, text |-> ""]
titled_doc == [name |-> "notes.txt", untitled |-> FALSE, untouched |-> FALSE, text |-> "a"]

\* the views that are closed and created again
ReopenViews == {2}

\* the documents a view is created for
NewDocs == {untitled_doc(n) : n \in Names} \cup {titled_doc}

\* directories left by earlier sessions, by their age at StartTime
Dir50d   == strftime(StartTime - 50 * SecondsPerDay)
Dir28d   == strftime(StartTime - _MAX_STORED_AGE_S)
Dir28dm1 == strftime(StartTime - _MAX_STORED_AGE_S + 1)
Dir20d   == strftime(StartTime - 20 * SecondsPerDay)
Dir1d    == strftime(StartTime - 1 * SecondsPerDay)
\* an entry that is no timestamp ("20230230-000000": no such day)
DirBad   == <<2023, 2, 30, 0, 0, 0>>

OldFiles(n) ==
    IF n = Dir50d THEN [f \in Names |-> IF f = Name1 THEN "ab" ELSE "a"]
    ELSE [f \in {Name1} |-> "a"]

OldSets ==
    { {}, {Dir50d, Dir28d, Dir28dm1, Dir20d, Dir1d}, {DirBad, Dir50d} }

\* the tree with the directories of D, everything writable
old_store(D) ==
    [root |-> TRUE, dirs |-> [n \in D |-> OldFiles(n)], ro_root |-> FALSE, ro |-> {}]

InitStores ==
    { [root |-> FALSE, dirs |-> NoDirs, ro_root |-> FALSE, ro |-> {}] }
        \cup { old_store(D) : D \in OldSets }

\* the value of last after a step of the collaborators (no handler of the plugin ran)
Env == [op |-> "env", w |-> 0, exc |-> "none"]

Init ==
    /\ now = StartTime
    /\ settings \in [auto_save : BOOLEAN, auto_save_interval : Intervals]
    /\ fs \in InitStores
    /\ doc \in { d \in [Views -> NewDocs] : d[1] = untitled_doc(Name1) }
    /\ view = [w \in Views |-> new_view]
    /\ timers = [w \in Views |-> {}]
    /\ conns = [w \in Views |-> {}]
    /\ last = Env

----------------------------------------------------------------------------
(* Actions: one per handler the host calls, and one per change of the      *)
(* collaborators (clock, document).                              *)

ViewState(w) == [self |-> view[w], timers |-> timers[w], conns |-> conns[w]]

SetViewState(w, S) ==
    /\ view' = [view EXCEPT ![w] = S.self]
    /\ timers' = [timers EXCEPT ![w] = S.timers]
    /\ conns' = [conns EXCEPT ![w] = S.conns]

\* time passes
AdvanceClock ==
    /\ \E u \in Uptimes : StartTime + u > now /\ now' = StartTime + u
    /\ last' = Env
    /\ UNCHANGED <<settings, fs, doc, view, timers, conns>>

\* SafetySavePluginAppExtension.do_activate
AppActivate ==
    /\ LET r == do_cleanup(fs, now)
       IN  /\ fs' = r.fs
           /\ last' = [op |-> "app_activate", w |-> 0, exc |-> r.exc]
    /\ UNCHANGED <<now, settings, doc, view, timers, conns>>

\* SafetySavePluginViewExtension.do_activate, called once per object
ViewActivate(w) ==
    /\ view[w].phase = "new"
    /\ LET r == view_do_activate(ViewState(w), doc[w], fs, settings)
       IN  /\ SetViewState(w, [r.S EXCEPT !.self.phase = "active"])
           /\ fs' = r.fs
           /\ last' = [op |-> "do_activate", w |-> w, exc |-> r.exc]
    /\ UNCHANGED <<now, settings, doc>>

\* SafetySavePluginViewExtension.do_deactivate
ViewDeactivate(w) ==
    /\ view[w].phase = "active"
    /\ LET r == view_do_deactivate(ViewState(w), fs, settings)
       IN  /\ SetViewState(w, [r.S EXCEPT !.self.phase = "gone"])
           /\ fs' = r.fs
           /\ last' = [op |-> "do_deactivate", w |-> w, exc |-> r.exc]
    /\ UNCHANGED <<now, settings, doc>>

\* a timeout source of the view fires: __store_unsaved_cb
Tick(w) ==
    /\ \E i \in timers[w] :
          LET r == store_unsaved_cb(view[w], doc[w], fs)
          IN  /\ fs' = r.fs
              /\ timers' = [timers EXCEPT ![w] = IF r.ret THEN @ ELSE @ \ {i}]
              /\ last' = [op |-> "tick", w |-> w, exc |-> r.exc]
    /\ UNCHANGED <<now, settings, doc, view, conns>>

\* the user edits an unnamed document (documents change while their view is active:
\* the extension is activated when the view is created)
Edit(w) ==
    /\ view[w].phase = "active"
    /\ doc[w].untitled
    /\ \E t \in Texts \ {doc[w].text} :
          doc' = [doc EXCEPT ![w].text = t, ![w].untouched = FALSE]
    /\ last' = Env
    /\ UNCHANGED <<now, settings, fs, view, timers, conns>>

\* the document is saved under a name and emits 'saved'; last.op is
\* "on_saved" when __on_saved ran (the view had a connection) and "saved"
\* when the signal found no handler of the plugin
Saved(w) ==
    /\ view[w].phase = "active"
    /\ doc' = [doc EXCEPT ![w].untitled = FALSE, ![w].untouched = FALSE]
    /\ LET r == emit_saved(conns[w], ViewState(w), fs, "none")
       IN  /\ SetViewState(w, r.S)
           /\ fs' = r.fs
           /\ last' = [op  |-> IF conns[w] = {} THEN "saved" ELSE "on_saved",
                       w   |-> w,
                       exc |-> r.exc]
    /\ UNCHANGED <<now, settings>>

\* the view was closed; a new view (document, extension object) takes its place
Reopen(w) ==
    /\ w \in ReopenViews
    /\ view[w].phase = "gone"
    /\ timers[w] = {} /\ conns[w] = {}
    /\ \E d \in NewDocs : doc' = [doc EXCEPT ![w] = d]
    /\ view' = [view EXCEPT ![w] = new_view]
    /\ last' = Env
    /\ UNCHANGED <<now, settings, fs, timers, conns>>

Next ==
    \/ AdvanceClock
    \/ AppActivate
    \/ \E w \in Views : ViewActivate(w)
    \/ \E w \in Views : ViewDeactivate(w)
    \/ \E w \in Views : Tick(w)
    \/ \E w \in Views : Edit(w)
    \/ \E w \in Views : Saved(w)
    \/ \E w \in Views : Reopen(w)

Spec == Init /\ [][Next]_vars

----------------------------------------------------------------------------
(* Runs in which directories of the store become read-only, so that        *)
(* unlink, rmdir, makedirs and open raise PermissionError.                 *)

\* auto-save is on in these runs
SettingsOn == [auto_save |-> TRUE, auto_save_interval |-> 10]

\* the trees these runs start from: two directories over the threshold, or none
FailStores == { old_store({}), old_store({Dir50d, Dir28d}) }

InitFail ==
    /\ now = StartTime
    /\ settings = SettingsOn
    /\ fs \in FailStores
    /\ doc \in { d \in [Views -> NewDocs] : d[1] = untitled_doc(Name1) }
    /\ view = [w \in Views |-> new_view]
    /\ timers = [w \in Views |-> {}]
    /\ conns = [w \in Views |-> {}]
    /\ last = Env

\* the store root or one of its directories becomes read-only, or writable again
Chmod ==
    /\ fs.root
    /\ \/ fs' = [fs EXCEPT !.ro_root = ~@]
       \/ \E n \in DOMAIN fs.dirs :
             fs' = [fs EXCEPT !.ro = IF n \in @ THEN @ \ {n} ELSE @ \cup {n}]
    /\ last' = Env
    /\ UNCHANGED <<now, settings, doc, view, timers, conns>>

NextFail ==
    \/ AppActivate
    \/ \E w \in Views : ViewActivate(w)
    \/ \E w \in Views : ViewDeactivate(w)
    \/ \E w \in Views : Tick(w)
    \/ \E w \in Views : Edit(w)
    \/ \E w \in Views : Saved(w)
    \/ Chmod

SpecFail == InitFail /\ [][NextFail]_vars

----------------------------------------------------------------------------
(* Runs of the main loop: a timeout source that exists is dispatched again *)
(* and again (GLib calls the callback every wait_s seconds until it        *)
(* returns False or the source is removed).                                *)

SpecLive == Init /\ [][Next]_vars /\ \A w \in Views : WF_vars(Tick(w))

----------------------------------------------------------------------------
(* Runs in which do_activate is called again on an extension object that   *)
(* is already active.                                                      *)

\* the timeout sources one view is let to pile up
MaxTimers == 2

InitRe ==
    /\ now = StartTime
    /\ settings = SettingsOn
    /\ fs \in { old_store({}), old_store({Dir20d}) }
    /\ doc \in { d \in [Views -> NewDocs] : d[1] = untitled_doc(Name1) }
    /\ view = [w \in Views |-> new_view]
    /\ timers = [w \in Views |-> {}]
    /\ conns = [w \in Views |-> {}]
    /\ last = Env

\* SafetySavePluginViewExtension.do_activate on an object that is active
ViewActivateAgain(w) ==
    /\ view[w].phase = "active"
    /\ Cardinality(timers[w]) < MaxTimers
    /\ LET r == view_do_activate(ViewState(w), doc[w], fs, settings)
       IN  /\ SetViewState(w, r.S)
           /\ fs' = r.fs
           /\ last' = [op |-> "do_activate", w |-> w, exc |-> r.exc]
    /\ UNCHANGED <<now, settings, doc>>

NextRe ==
    \/ \E w \in Views : ViewActivate(w)
    \/ \E w \in Views : ViewActivateAgain(w)
    \/ \E w \in Views : ViewDeactivate(w)
    \/ \E w \in Views : Tick(w)
    \/ \E w \in Views : Edit(w)
    \/ \E w \in Views : Saved(w)

SpecRe == InitRe /\ [][NextRe]_vars

----------------------------------------------------------------------------
(* Properties                                                              *)

\* the temp file of view w: directory and file name of its __file_path
path_dir(w)  == view[w].file_path[1][1]
path_file(w) == view[w].file_path[1][2]

\* view w is Watching
Watching(w) == view[w].watch_state

\* the temp file of view w exists in tree F
TempExists(F, w) == file_exists(F, path_dir(w), path_file(w))

\* C1: a tick of a Watching view whose document is untouched leaves the
\* whole storage tree as it was (nothing created, nothing modified), and the
\* view is still Watching with its timeout source scheduled.
C1_UntouchedTickIsNoop ==
    [][\A w \in Views :
          (Tick(w) /\ Watching(w) /\ doc[w].untouched)
              => /\ fs' = fs
                 /\ Watching(w)'
                 /\ timers'[w] = timers[w]
                 /\ view'[w].save_timer_id # NoAttr
                 /\ view'[w].save_timer_id[1] \in timers'[w]]_vars

\* a tick has just run for a Watching view with an untouched document while
\* a file of that name is in the session directory
C1_Witness ==
    \E w \in Views :
        /\ last = [op |-> "tick", w |-> w, exc |-> "none"]
        /\ Watching(w) /\ doc[w].untouched
        /\ TempExists(fs, w)

\* C2: a tick at which the document is not untouched leaves exactly the
\* document's text in <session dir>/<display name>; and while no other
\* Watching view has the same file, the content of that file only ever
\* changes by such a tick, to the text of the document at that tick.
C2_TempFileIsTextAtLastTick ==
    [][\A w \in Views :
          /\ (Tick(w) /\ Watching(w) /\ ~doc[w].untouched)
                => /\ file_exists(fs', _store_path, doc[w].name)
                   /\ fs'.dirs[_store_path][doc[w].name] = doc[w].text
          /\ ( /\ Watching(w)
               /\ \A v \in Views \ {w} :
                     Watching(v) => view[v].file_path # view[w].file_path
               /\ TempExists(fs', w)
               /\ \/ ~TempExists(fs, w)
                  \/ fs'.dirs[path_dir(w)][path_file(w)]
                        # fs.dirs[path_dir(w)][path_file(w)] )
                => /\ Tick(w)
                   /\ ~doc[w].untouched
                   /\ fs'.dirs[path_dir(w)][path_file(w)] = doc[w].text]_vars

\* a writing tick has just run for a view that shares its file with no other
\* view, and the file holds the text of its document
C2_Witness ==
    \E w \in Views :
        /\ last = [op |-> "tick", w |-> w, exc |-> "none"]
        /\ Watching(w) /\ ~doc[w].untouched
        /\ \A v \in Views \ {w} : view[v].file_path # view[w].file_path
        /\ TempExists(fs, w)
        /\ fs.dirs[path_dir(w)][path_file(w)] = doc[w].text

\* C3 as stated: after 'saved' was handled by a Watching view its temp file
\* is gone, the session directory is gone if that was its last file, and
\* otherwise the directory and the temp file of every other Watching view
\* (here: one that holds the current text of that view's document) remain.
C3_Original ==
    [][\A w \in Views :
          (Saved(w) /\ Watching(w))
              => /\ ~TempExists(fs', w)
                 /\ (TempExists(fs, w) /\ listdir(fs, path_dir(w)) = {path_file(w)})
                        => ~exists(fs', path_dir(w))
                 /\ (exists(fs, path_dir(w))
                         /\ listdir(fs, path_dir(w)) \ {path_file(w)} # {})
                        => /\ exists(fs', path_dir(w))
                           /\ \A v \in Views \ {w} :
                                 ( /\ Watching(v) /\ ~doc[v].untouched
                                   /\ TempExists(fs, v)
                                   /\ fs.dirs[path_dir(v)][path_file(v)] = doc[v].text )
                                    => /\ TempExists(fs', v)
                                       /\ fs'.dirs[path_dir(v)][path_file(v)]
                                             = fs.dirs[path_dir(v)][path_file(v)]]_vars

\* C3 (amended): after 'saved' was handled by a Watching view its temp file
\* is gone, the session directory is gone if that was its last file, and
\* otherwise the directory and every other file in it remain unchanged.
C3_SavedRemovesTempFile ==
    [][\A w \in Views :
          (Saved(w) /\ Watching(w))
              => /\ ~TempExists(fs', w)
                 /\ (TempExists(fs, w) /\ listdir(fs, path_dir(w)) = {path_file(w)})
                        => ~exists(fs', path_dir(w))
                 /\ (exists(fs, path_dir(w))
                         /\ listdir(fs, path_dir(w)) \ {path_file(w)} # {})
                        => /\ exists(fs', path_dir(w))
                           /\ \A g \in listdir(fs, path_dir(w)) \ {path_file(w)} :
                                 /\ g \in listdir(fs', path_dir(w))
                                 /\ fs'.dirs[path_dir(w)][g] = fs.dirs[path_dir(w)][g]]_vars

\* __on_saved has just run for a view and raised nothing (so unlink found
\* the temp file and removed it) and the session directory is gone
C3_Witness ==
    \E w \in Views :
        /\ last = [op |-> "on_saved", w |-> w, exc |-> "none"]
        /\ view[w].file_path # NoAttr
        /\ ~Watching(w) /\ ~doc[w].untitled
        /\ fs.root /\ ~exists(fs, _store_path)

\* C4: do_deactivate leaves the storage tree as it was: a temp file written
\* by an earlier tick is still there with the same content, and the session
\* directory is not removed.
C4_DeactivateKeepsFiles ==
    [][\A w \in Views : ViewDeactivate(w) => fs' = fs]_vars

\* a view that wrote its temp file has just been deactivated and the file
\* still holds the text of the document
C4_Witness ==
    \E w \in Views :
        /\ last = [op |-> "do_deactivate", w |-> w, exc |-> "none"]
        /\ view[w].file_path # NoAttr
        /\ doc[w].untitled /\ ~doc[w].untouched
        /\ TempExists(fs, w)
        /\ fs.dirs[path_dir(w)][path_file(w)] = doc[w].text

\* the age of directory n at time t, from the timestamp in its name
Age(n, t) == t - strptime(n)

\* C5: when every entry of the store root parses as a timestamp, the sweep
\* removes exactly the directories whose age is at least 28 days, with all
\* their files, and leaves the others and their files as they were.
C5_SweepRemovesExactlyOld ==
    [][(last'.op = "app_activate" /\ AppActivate
           /\ fs.root /\ \A n \in DOMAIN fs.dirs : parses(n))
          => /\ fs'.root
             /\ DOMAIN fs'.dirs
                   = {n \in DOMAIN fs.dirs : Age(n, now) < 28 * SecondsPerDay}
             /\ \A n \in DOMAIN fs'.dirs : fs'.dirs[n] = fs.dirs[n]
             /\ last'.exc = "none"]_vars

\* the sweep has just run at session start over the directories of 50, 28,
\* 28 minus one second, 20 and 1 days: the first two are gone, the others
\* and their files are there
C5_Witness ==
    /\ last = [op |-> "app_activate", w |-> 0, exc |-> "none"]
    /\ now = StartTime
    /\ fs.root
    /\ {Dir28dm1, Dir20d, Dir1d} \subseteq DOMAIN fs.dirs
    /\ Dir50d \notin DOMAIN fs.dirs
    /\ Dir28d \notin DOMAIN fs.dirs
    /\ \A n \in {Dir28dm1, Dir20d, Dir1d} : fs.dirs[n] = OldFiles(n)

\* C6: when the store root does not exist the sweep returns normally and
\* creates and removes nothing.
C6_SweepWithoutRoot ==
    [][(~fs.root /\ last'.op = "app_activate" /\ AppActivate)
          => (fs' = fs /\ last'.exc = "none")]_vars

\* the sweep has just run and there is no store root
C6_Witness ==
    /\ last = [op |-> "app_activate", w |-> 0, exc |-> "none"]
    /\ ~fs.root

\* 'auto-save' is off and no view object has seen it on
Disabled ==
    /\ ~settings.auto_save
    /\ \A w \in Views : view[w].enabled # <<TRUE>>

\* C7: while the toggle is off and has been off for every view, no view is
\* Watching, no timeout source and no 'saved' connection exists, no step but
\* the sweep changes the storage tree, and this lasts as long as the setting
\* stays as it is.
C7_DisabledDoesNothing ==
    /\ [](Disabled => \A w \in Views :
              ~Watching(w) /\ timers[w] = {} /\ conns[w] = {})
    /\ [][(Disabled /\ ~AppActivate) => fs' = fs]_vars
    /\ [][(Disabled /\ settings' = settings) => Disabled']_vars

\* with the toggle off, an unnamed document was opened, edited and saved
C7_Witness ==
    /\ Disabled
    /\ \E w \in Views :
          /\ last = [op |-> "saved", w |-> w, exc |-> "none"]
          /\ view[w].enabled = <<FALSE>>
          /\ doc[w].text # ""

\* C8: a view that is not Watching has no timeout source left, and a tick
\* only ever runs for a Watching view.
C8_NoTickAfterStop ==
    /\ [](\A w \in Views : ~Watching(w) => timers[w] = {})
    /\ [][\A w \in Views : Tick(w) => Watching(w)]_vars

\* a view that was Watching has just left it by a named save or a deactivation
C8_Witness ==
    \E w \in Views :
        /\ last.op \in {"on_saved", "do_deactivate"} /\ last.w = w
        /\ view[w].file_path # NoAttr
        /\ ~Watching(w)
        /\ timers[w] = {}

\* C9 as stated: no run of the sweep removes the directory of the current
\* session or changes a file in it.
C9_Original ==
    [][(exists(fs, _store_path) /\ last'.op = "app_activate" /\ AppActivate)
          => /\ exists(fs', _store_path)
             /\ fs'.dirs[_store_path] = fs.dirs[_store_path]]_vars

\* C10: do_activate leaves a view Watching only if the toggle is on and the
\* document is untitled; otherwise it makes no 'saved' connection and no
\* timeout source; and it never changes the storage tree.
C10_ActivateGuards ==
    [][\A w \in Views :
          ViewActivate(w)
              => /\ Watching(w)' => (settings.auto_save /\ doc[w].untitled)
                 /\ ~(settings.auto_save /\ doc[w].untitled)
                        => /\ conns'[w] = {} /\ timers'[w] = {}
                           /\ view'[w].sig_saved = NoAttr
                           /\ view'[w].save_timer_id = NoAttr
                 /\ fs' = fs]_vars

\* a view has just been activated for a named document with the toggle on,
\* and is not Watching
C10_Witness ==
    \E w \in Views :
        /\ last = [op |-> "do_activate", w |-> w, exc |-> "none"]
        /\ view[w].enabled = <<TRUE>>
        /\ ~doc[w].untitled
        /\ ~Watching(w) /\ timers[w] = {} /\ conns[w] = {}


\* C11: two Watching views whose documents have the same display name have
\* the same temp file path, and a writing tick of either of them raises
\* nothing and leaves in that file the text of its own document, whatever
\* the other view wrote there before.
C11_CollisionLastTickWins ==
    [][\A w \in Views : \A v \in Views \ {w} :
          (Watching(w) /\ Watching(v) /\ doc[w].name = doc[v].name)
              => /\ view[w].file_path = view[v].file_path
                 /\ (Tick(w) /\ ~doc[w].untouched)
                       => /\ last'.exc = "none"
                          /\ TempExists(fs', v)
                          /\ fs'.dirs[path_dir(v)][path_file(v)] = doc[w].text]_vars

\* a writing tick has just run for one of two Watching views that share a
\* temp file and hold different texts, and the file holds the text of the
\* view whose tick ran
C11_Witness ==
    \E w \in Views : \E v \in Views \ {w} :
        /\ last = [op |-> "tick", w |-> w, exc |-> "none"]
        /\ Watching(w) /\ Watching(v)
        /\ view[w].file_path = view[v].file_path
        /\ ~doc[w].untouched /\ ~doc[v].untouched
        /\ doc[w].text # doc[v].text
        /\ fs.dirs[path_dir(v)][path_file(v)] = doc[w].text
        /\ timers[w] # {} /\ timers[v] # {}

\* C12 as stated: when 'saved' is handled by a Watching view whose temp file
\* does not exist, the handler raises nothing, the view is no longer
\* Watching, its timeout source and its 'saved' connection are gone, and the
\* storage tree is as it was.
C12_Original ==
    [][\A w \in Views :
          (Saved(w) /\ Watching(w) /\ ~TempExists(fs, w))
              => /\ last'.exc = "none"
                 /\ ~view'[w].watch_state
                 /\ timers'[w] = {} /\ conns'[w] = {}
                 /\ fs' = fs]_vars

\* C13 as stated: a sweep over a store root with an entry whose name is no
\* session timestamp raises nothing, leaves that entry as it was, and
\* removes exactly the session directories that are 28 days old or older,
\* those sorted after the unparsable entry included.
C13_Original ==
    [][( /\ last'.op = "app_activate"
         /\ AppActivate
         /\ fs.root
         /\ \E n \in DOMAIN fs.dirs : ~parses(n) )
           => /\ last'.exc = "none"
              /\ \A n \in DOMAIN fs.dirs :
                    IF parses(n)
                    THEN n \in DOMAIN fs'.dirs <=> Age(n, now) < _MAX_STORED_AGE_S
                    ELSE n \in DOMAIN fs'.dirs /\ fs'.dirs[n] = fs.dirs[n]]_vars

\* C14 as stated: in a sweep over session directories, every directory that
\* is 28 days old or older and can be deleted (it is writable or empty, and
\* the store root is writable) is removed, also when the deletion of another
\* directory fails in the same sweep.
C14_Original ==
    [][( /\ last'.op = "app_activate"
         /\ AppActivate
         /\ fs.root
         /\ \A n \in DOMAIN fs.dirs : parses(n) )
           => \A n \in DOMAIN fs.dirs :
                 ( /\ Age(n, now) >= _MAX_STORED_AGE_S
                   /\ ~rmdir_fails(fs)
                   /\ (listdir(fs, n) = {} \/ ~unlink_fails(fs, n)) )
                    => n \notin DOMAIN fs'.dirs]_vars

\* C16 as stated: no exception leaves a tick or the handler of 'saved' when
\* a filesystem call fails in it; after a tick of a Watching view the view is
\* still Watching, the timeout source it holds is still scheduled and its
\* 'saved' connection is still registered; after 'saved' was handled the
\* view is not Watching and holds no timeout source and no connection.
C16_Original ==
    [][\A w \in Views :
          /\ (Tick(w) /\ Watching(w))
                => /\ last'.exc = "none"
                   /\ view'[w].watch_state
                   /\ view'[w].save_timer_id # NoAttr
                   /\ view'[w].save_timer_id[1] \in timers'[w]
                   /\ view'[w].sig_saved # NoAttr
                   /\ view'[w].sig_saved[1] \in conns'[w]
          /\ (Saved(w) /\ Watching(w) /\ TempExists(fs, w))
                => /\ last'.exc = "none"
                   /\ ~view'[w].watch_state
                   /\ timers'[w] = {} /\ conns'[w] = {}]_vars

\* C15: a tick of a Watching view keeps the timeout source of the view
\* scheduled, on the untouched and on the writing branch; a view that stays
\* Watching has a tick again and again; and the text of a document that was
\* edited while its view is Watching is eventually in its temp file, unless
\* the view stops Watching first.
C15_TimerReschedules ==
    /\ [][\A w \in Views :
             (Tick(w) /\ Watching(w))
                 => /\ view[w].save_timer_id[1] \in timers'[w]
                    /\ view'[w].watch_state]_vars
    /\ \A w \in Views :
          []<>(~Watching(w) \/ (last.op = "tick" /\ last.w = w))
    /\ \A w \in Views :
          (Watching(w) /\ ~doc[w].untouched)
              ~> ( \/ ~Watching(w)
                   \/ /\ TempExists(fs, w)
                      /\ fs.dirs[path_dir(w)][path_file(w)] = doc[w].text )

\* a tick has just written the text of an edited document, and the view is
\* still Watching with the timeout source it holds scheduled
C15_Witness ==
    \E w \in Views :
        /\ last = [op |-> "tick", w |-> w, exc |-> "none"]
        /\ Watching(w) /\ view[w].save_timer_id[1] \in timers[w]
        /\ doc[w].text = "ab"
        /\ TempExists(fs, w)
        /\ fs.dirs[path_dir(w)][path_file(w)] = "ab"

\* C17 as stated: a view never has more than one scheduled timeout source
\* or more than one 'saved' connection, also when do_activate arrives while
\* it is Watching, and a tick of a view that is not Watching changes nothing.
C17_Original ==
    /\ [](\A w \in Views :
             Cardinality(timers[w]) <= 1 /\ Cardinality(conns[w]) <= 1)
    /\ [][\A w \in Views : (Tick(w) /\ ~Watching(w)) => fs' = fs]_vars

\* C18: when every extension object is activated at most once, a view is
\* Watching if and only if it holds the handle of a timeout source, and if
\* and only if it holds the handle of a 'saved' connection; the handles it
\* holds are those of the one source that is scheduled and the one handler
\* that is connected for it, and a view that is not Watching has neither.
C18_WatchFlagIffHandles ==
    \A w \in Views :
        /\ Watching(w) <=> view[w].save_timer_id # NoAttr
        /\ Watching(w) <=> view[w].sig_saved # NoAttr
        /\ Watching(w) => /\ timers[w] = {view[w].save_timer_id[1]}
                          /\ conns[w] = {view[w].sig_saved[1]}
        /\ ~Watching(w) => timers[w] = {} /\ conns[w] = {}

\* one view is Watching and holds both handles while the other view, which
\* was Watching before, has stopped and holds none
C18_Witness ==
    \E w \in Views : \E v \in Views \ {w} :
        /\ Watching(w)
        /\ timers[w] # {} /\ conns[w] # {}
        /\ ~Watching(v)
        /\ view[v].file_path # NoAttr
        /\ view[v].save_timer_id = NoAttr /\ view[v].sig_saved = NoAttr
        /\ timers[v] = {} /\ conns[v] = {}

\* C19: without I/O failures the directory of the current session, when it
\* exists, holds at least one file; it comes into existence only in a tick
\* of a Watching view that writes its temp file (not at start, not on
\* entering Watching), and a handled 'saved' that removes the last file in
\* it removes the directory too.
C19_SessionDirNeverEmpty ==
    /\ [](exists(fs, _store_path) => listdir(fs, _store_path) # {})
    /\ [][(~exists(fs, _store_path) /\ exists(fs', _store_path))
             => \E w \in Views :
                   /\ Tick(w)
                   /\ ~doc[w].untouched
                   /\ TempExists(fs', w)]_vars
    /\ [][\A w \in Views :
             ( /\ Saved(w) /\ Watching(w)
               /\ exists(fs, _store_path)
               /\ listdir(fs, _store_path) = {path_file(w)} )
                 => ~exists(fs', _store_path)]_vars

\* __on_saved has just run for a view and raised nothing (unlink found the
\* temp file, removed it, and rmdir removed the directory it left empty):
\* the session directory is gone again, while the other view is Watching
\* and has written nothing
C19_Witness ==
    \E w \in Views : \E v \in Views \ {w} :
        /\ last = [op |-> "on_saved", w |-> w, exc |-> "none"]
        /\ view[w].file_path # NoAttr
        /\ fs.root /\ ~exists(fs, _store_path)
        /\ Watching(v) /\ doc[v].untouched

\* C20: when 'saved' is handled by one of two Watching views with the same
\* temp file path and the file exists, no exception is raised, the file is
\* gone (and the session directory if that was its last file) and the other
\* view is still Watching; while the file of a Watching view is absent, a
\* tick of that view leaves the tree alone if its document is untouched and
\* otherwise creates the session directory and the file with the text of
\* its document; and the file comes back only by a writing tick of a view
\* with that path.
C20_CollisionSaveRemovesSharedFile ==
    /\ [][\A w \in Views : \A v \in Views \ {w} :
             ( /\ Saved(w) /\ Watching(w) /\ Watching(v)
               /\ view[w].file_path = view[v].file_path
               /\ TempExists(fs, w) )
                 => /\ last'.exc = "none"
                    /\ ~TempExists(fs', v)
                    /\ listdir(fs, path_dir(w)) = {path_file(w)}
                          => ~exists(fs', path_dir(w))
                    /\ view'[v].watch_state
                    /\ timers'[v] = timers[v]]_vars
    /\ [][\A v \in Views :
             (Tick(v) /\ Watching(v) /\ ~TempExists(fs, v))
                 => IF doc[v].untouched
                    THEN fs' = fs
                    ELSE /\ exists(fs', _store_path)
                         /\ TempExists(fs', v)
                         /\ fs'.dirs[path_dir(v)][path_file(v)] = doc[v].text]_vars
    /\ [][\A v \in Views :
             (Watching(v) /\ ~TempExists(fs, v) /\ TempExists(fs', v))
                 => \E u \in Views :
                       /\ Tick(u)
                       /\ ~doc[u].untouched
                       /\ view[u].file_path = view[v].file_path]_vars

\* __on_saved has just run, without raising, for a view whose file another
\* Watching view shares (unlink found the shared file and removed it): the
\* session directory is gone although the document of that other view is
\* edited, unsaved and still watched
C20_Witness ==
    \E w \in Views : \E v \in Views \ {w} :
        /\ last = [op |-> "on_saved", w |-> w, exc |-> "none"]
        /\ view[w].file_path = view[v].file_path
        /\ Watching(v) /\ timers[v] # {}
        /\ doc[v].untitled /\ ~doc[v].untouched
        /\ ~exists(fs, _store_path)

====
